---- MODULE Spec2Model ----
(***************************************************************************)
(* Model of .github/scripts/check_adaptive_alloc.py: the allocation-delta  *)
(* gate that locates BenchmarkDotNet JSON reports, extracts the fixed and  *)
(* adaptive per-operation allocations, compares them and renders a report. *)
(*                                                                         *)
(* Numbers are exact rationals [k, n, d] (k = "num"), with the special     *)
(* values None, Inf and NaN carried in the same record shape; binary       *)
(* floating-point rounding of Python's float is not modelled.              *)
(* Strings that the program inspects (method labels, environment values)   *)
(* are sequences of one-character strings.                                 *)
(***************************************************************************)
EXTENDS Integers, Sequences, FiniteSets, TLC

(* ------------------------------ bounds --------------------------------- *)

MaxFiles == 3

MaxEntries == 3

(* ------------------------- program constants --------------------------- *)

DEFAULT_THRESH == 20

DEFAULT_MIN_BYTES == 4096

(* ------------------------------ numbers -------------------------------- *)

Abs(x) == IF x < 0 THEN -x ELSE x

RECURSIVE Gcd(_, _)
Gcd(a, b) == IF b = 0 THEN a ELSE Gcd(b, a % b)

None == [k |-> "none", n |-> 0, d |-> 1]

Inf == [k |-> "inf", n |-> 0, d |-> 1]

NaN == [k |-> "nan", n |-> 0, d |-> 1]

\* the rational n/d in lowest terms with a positive denominator (d # 0)
Num(n, d) ==
    LET g == Gcd(Abs(n), Abs(d))
        s == IF d < 0 THEN -1 ELSE 1
    IN  [k |-> "num", n |-> (s * n) \div g, d |-> (s * d) \div g]

Whole(i) == Num(i, 1)

IsNone(x) == x.k = "none"

\* Python truthiness of a number or None: None and zero are falsy
Truthy(x) == \/ x.k \in {"inf", "nan"}
             \/ x.k = "num" /\ x.n # 0

\* x < y on floats: any comparison with NaN is false
Lt(x, y) ==
    CASE x.k = "nan" \/ y.k = "nan" -> FALSE
      [] x.k = "inf" -> FALSE
      [] y.k = "inf" -> TRUE
      [] OTHER -> x.n * y.d < y.n * x.d

\* x <= y on floats
Leq(x, y) ==
    CASE x.k = "nan" \/ y.k = "nan" -> FALSE
      [] y.k = "inf" -> TRUE
      [] x.k = "inf" -> FALSE
      [] OTHER -> x.n * y.d <= y.n * x.d

\* x - y, x / y and x * y on finite numbers (y # 0 for the division)
Sub(x, y) == Num(x.n * y.d - y.n * x.d, x.d * y.d)

Div(x, y) == Num(x.n * y.d, x.d * y.n)

Mul(x, y) == Num(x.n * y.n, x.d * y.d)

\* the integer nearest to n/d (d > 0), ties to the even one: what the
\* format specifications ".0f" and ".2f" do to the value they print
RoundHalfEven(n, d) ==
    LET q == n \div d
        r == n - q * d
    IN  CASE 2 * r < d -> q
          [] 2 * r > d -> q + 1
          [] OTHER -> IF q % 2 = 0 THEN q ELSE q + 1

\* f"{x:,.0f}": the value rounded to an integer
Fmt0(x) == IF x.k = "num" THEN [k |-> "num", v |-> RoundHalfEven(x.n, x.d)]
           ELSE [k |-> x.k, v |-> 0]

\* f"{x:.2f}": the value rounded to hundredths (v counts hundredths)
Fmt2(x) == IF x.k = "num" THEN [k |-> "num", v |-> RoundHalfEven(100 * x.n, x.d)]
           ELSE [k |-> x.k, v |-> 0]

(* ------------------------------ strings -------------------------------- *)

UpperCase == <<"A","B","C","D","E","F","G","H","I","J","K","L","M",
               "N","O","P","Q","R","S","T","U","V","W","X","Y","Z">>

LowerCase == <<"a","b","c","d","e","f","g","h","i","j","k","l","m",
               "n","o","p","q","r","s","t","u","v","w","x","y","z">>

Digits == <<"0","1","2","3","4","5","6","7","8","9">>

\* str.lower()
Lower(s) ==
    [i \in 1..Len(s) |->
        IF \E j \in 1..26 : UpperCase[j] = s[i]
        THEN LowerCase[CHOOSE j \in 1..26 : UpperCase[j] = s[i]]
        ELSE s[i]]

\* needle in hay
Contains(needle, hay) ==
    \E i \in 0..(Len(hay) - Len(needle)) :
        SubSeq(hay, i + 1, i + Len(needle)) = needle

IsDigit(c) == \E j \in 1..10 : Digits[j] = c

DigitVal(c) == (CHOOSE j \in 1..10 : Digits[j] = c) - 1

RECURSIVE DecimalValue(_)
DecimalValue(s) ==
    IF s = <<>> THEN 0
    ELSE 10 * DecimalValue(SubSeq(s, 1, Len(s) - 1)) + DigitVal(s[Len(s)])

\* float(s) for the environment strings of the model: an optional sign and
\* decimal digits, or "inf"; anything else raises ValueError (ok = FALSE)
ParseFloat(s) ==
    LET neg == s # <<>> /\ s[1] = "-"
        body == IF neg THEN Tail(s) ELSE s
    IN  CASE body = <<"i","n","f">> /\ ~neg -> [ok |-> TRUE, val |-> Inf]
          [] body # <<>> /\ \A i \in 1..Len(body) : IsDigit(body[i]) ->
                 [ok |-> TRUE,
                  val |-> Whole(IF neg THEN -DecimalValue(body) ELSE DecimalValue(body))]
          [] OTHER -> [ok |-> FALSE, val |-> NaN]

(* --------------------------- report files ------------------------------ *)

\* A benchmark entry b of the "Benchmarks" array. b.get(key) answers None for
\* an absent key and for a JSON null alike, and the code reads entries only
\* through get: an absent or null label is the empty string here, an absent or
\* null statistic is None, an absent Statistics block is NoStats.
NoStats == [AllocatedBytes |-> None, Operations |-> None, AllocatedB |-> None]

Entry(method, display, stats) ==
    [Method |-> method, DisplayInfo |-> display, Statistics |-> stats]

\* What a report file holds: text that is no JSON ("invalid"), a JSON value
\* that is no object ("array"), or an object whose "Benchmarks" member is
\* absent, null or a list of entries.
Doc(kind, bkind, benches) == [kind |-> kind, bkind |-> bkind, Benchmarks |-> benches]

InvalidDoc == Doc("invalid", "absent", <<>>)

ArrayDoc == Doc("array", "absent", <<>>)

NoBenchmarksDoc == Doc("object", "absent", <<>>)

NullBenchmarksDoc == Doc("object", "null", <<>>)

ListDoc(benches) == Doc("object", "list", benches)

(* --------------------------- load_allocations -------------------------- *)

\* lines 43-48: the per-operation allocation of one statistics block
PerOp_PreferAllocatedB(stats) ==
    LET allocated_bytes == stats.AllocatedBytes
        operations == IF Truthy(stats.Operations) THEN stats.Operations ELSE Whole(1)
    IN  IF ~IsNone(stats.AllocatedB) THEN stats.AllocatedB
        ELSE IF ~IsNone(allocated_bytes) THEN Div(allocated_bytes, operations)
        ELSE None

PerOp(stats) ==
    LET allocated_bytes == stats.AllocatedBytes
        operations == IF Truthy(stats.Operations) THEN stats.Operations ELSE Whole(1)
    IN  IF ~IsNone(allocated_bytes)
        THEN (IF Truthy(operations) THEN Div(allocated_bytes, operations) ELSE NaN)
        ELSE stats.AllocatedB

\* line 40: the label the entry is classified by
MethodOf(b) ==
    Lower(IF b.Method # <<>> THEN b.Method
          ELSE IF b.DisplayInfo # <<>> THEN b.DisplayInfo
          ELSE <<>>)

FixedWord == <<"f","i","x","e","d">>

AdaptiveWord == <<"a","d","a","p","t","i","v","e">>

\* lines 40-54: one iteration of the loop over the entries; acc holds
\* fixed_alloc (f) and adaptive_alloc (a)
LoopBody_FirstWins(acc, b) ==
    LET method == MethodOf(b)
        per_op == PerOp(b.Statistics)
    IN  IF IsNone(per_op) THEN acc
        ELSE IF Contains(FixedWord, method)
             THEN (IF IsNone(acc.f) THEN [acc EXCEPT !.f = per_op] ELSE acc)
        ELSE IF Contains(AdaptiveWord, method)
             THEN (IF IsNone(acc.a) THEN [acc EXCEPT !.a = per_op] ELSE acc)
        ELSE acc

LoopBody(acc, b) ==
    LET method == MethodOf(b)
        per_op == PerOp(b.Statistics)
    IN  IF IsNone(per_op) THEN acc
        ELSE IF Contains(FixedWord, method) THEN [acc EXCEPT !.f = per_op]
        ELSE IF Contains(AdaptiveWord, method) THEN [acc EXCEPT !.a = per_op]
        ELSE acc

\* lines 37-54: the loop over the first i entries
RECURSIVE LoopOver(_, _)
LoopOver(benches, i) ==
    IF i = 0 THEN [f |-> None, a |-> None]
    ELSE LoopBody(LoopOver(benches, i - 1), benches[i])

\* lines 33-55: the exception raised ("" when it returns) and the pair returned
load_allocations(doc) ==
    CASE doc.kind = "invalid" -> [exc |-> "JSONDecodeError", f |-> None, a |-> None]
      [] doc.kind = "array" -> [exc |-> "AttributeError", f |-> None, a |-> None]
      [] doc.bkind = "null" -> [exc |-> "TypeError", f |-> None, a |-> None]
      [] doc.bkind = "absent" -> [exc |-> "", f |-> None, a |-> None]
      [] OTHER -> LET r == LoopOver(doc.Benchmarks, Len(doc.Benchmarks))
                  IN  [exc |-> "", f |-> r.f, a |-> r.a]

(* ------------------------------- main ---------------------------------- *)

\* line 67: reports.sort(key=mtime, reverse=True) is stable: files of equal
\* mtime keep the order in which they were found
RECURSIVE InsertDesc(_, _, _)
InsertDesc(p, sorted, fs) ==
    IF sorted = <<>> THEN <<p>>
    ELSE IF fs[Head(sorted)].mtime >= fs[p].mtime
         THEN <<Head(sorted)>> \o InsertDesc(p, Tail(sorted), fs)
         ELSE <<p>> \o sorted

RECURSIVE InsertAsc(_, _, _)
InsertAsc(p, sorted, fs) ==
    IF sorted = <<>> THEN <<p>>
    ELSE IF fs[Head(sorted)].mtime <= fs[p].mtime
         THEN <<Head(sorted)>> \o InsertAsc(p, Tail(sorted), fs)
         ELSE <<p>> \o sorted

RECURSIVE SortAscending(_, _)
SortAscending(found, fs) ==
    IF found = <<>> THEN <<>>
    ELSE InsertAsc(found[Len(found)], SortAscending(SubSeq(found, 1, Len(found) - 1), fs), fs)

RECURSIVE SortReports(_, _)
SortReports(found, fs) ==
    IF found = <<>> THEN <<>>
    ELSE InsertDesc(found[Len(found)], SortReports(SubSeq(found, 1, Len(found) - 1), fs), fs)

\* line 81
UnderMin_Either(adaptive, fixed, minb) == Lt(adaptive, minb) \/ Lt(fixed, minb)

UnderMin(adaptive, fixed, minb) == Lt(adaptive, minb) /\ Lt(fixed, minb)

\* line 80
DeltaPct_Swapped(adaptive, fixed) ==
    IF Truthy(fixed) THEN Mul(Div(Sub(fixed, adaptive), fixed), Whole(100)) ELSE Inf

DeltaPct(adaptive, fixed) ==
    IF Truthy(fixed) THEN Mul(Div(Sub(adaptive, fixed), fixed), Whole(100)) ELSE Inf

\* line 82
Decide(under, delta, threshold) ==
    IF under \/ Leq(delta, threshold) THEN "PASS" ELSE "FAIL"

\* lines 96-99
ExitCode_Advisory(st) == 0

ExitCode(st) == IF st = "FAIL" THEN 1 ELSE 0

\* lines 83-93: the report, as the values its lines print
Render(path, fixed, adaptive, delta, threshold, minb, under, st) ==
    [report |-> path,
     fixed |-> Fmt0(fixed),
     adaptive |-> Fmt0(adaptive),
     delta |-> Fmt2(delta),
     threshold |-> Fmt2(threshold),
     min_bytes |-> Fmt0(minb),
     check |-> IF under THEN "skipped" ELSE "applied",
     result |-> st]

\* the file ADAPTIVE-ALLOC-DELTA.md: absent, or holding a report
NoFile == [exists |-> FALSE,
           md |-> Render(0, None, None, None, None, None, FALSE, "")]

\* line 94: Path.write_text replaces whatever the file held
WriteText_KeepExisting(file, md) ==
    IF file.exists THEN file ELSE [exists |-> TRUE, md |-> md]

WriteText(file, md) == [exists |-> TRUE, md |-> md]

(* ------------------------------ inputs --------------------------------- *)

SeqsUpTo(S, n) == UNION {[1..k -> S] : k \in 0..n}

Unset == [set |-> FALSE, val |-> <<>>]

EnvStr(s) == [set |-> TRUE, val |-> s]

FixedLabel == <<"F","i","x","e","d">>

AdaptiveLabel == <<"A","d","a","p","t","i","v","e">>

\* a DisplayInfo of the benchmark class: it holds both words
DisplayOfFixed == <<"A","d","a","p","t","i","v","e",".","F","i","x","e","d">>

OnlyB(v) == [AllocatedBytes |-> None, Operations |-> None, AllocatedB |-> Whole(v)]

FixedEntry(v) == Entry(FixedLabel, <<>>, OnlyB(v))

AdaptiveEntry(v) == Entry(AdaptiveLabel, <<>>, OnlyB(v))

PairDoc(f, a) == ListDoc(<<FixedEntry(f), AdaptiveEntry(a)>>)

\* the (Method, DisplayInfo) pairs of the entries the parser is run on
Labels ==
    { <<FixedLabel, AdaptiveLabel>>,
      <<<<"A","D","A","P","T","I","V","E">>, <<>>>>,
      <<<<>>, DisplayOfFixed>>,
      <<<<>>, AdaptiveLabel>>,
      <<<<"O","t","h","e","r">>, <<>>>> }

StatsBlocks ==
    { NoStats,
      [AllocatedBytes |-> Whole(3000), Operations |-> None, AllocatedB |-> None],
      [AllocatedBytes |-> Whole(3000), Operations |-> Whole(0), AllocatedB |-> Whole(700)],
      [AllocatedBytes |-> Whole(1000), Operations |-> Whole(3), AllocatedB |-> None],
      [AllocatedBytes |-> Whole(0), Operations |-> Whole(2), AllocatedB |-> Whole(700)],
      OnlyB(700) }

\* every label with one plain statistics block, every statistics block under
\* a fixed label, and an adaptive label with a second value and with no value
Entries ==
    {Entry(l[1], l[2], OnlyB(700)) : l \in Labels}
    \cup {Entry(FixedLabel, AdaptiveLabel, st) : st \in StatsBlocks}
    \cup {Entry(<<>>, AdaptiveLabel, st) :
             st \in {NoStats,
                     [AllocatedBytes |-> Whole(3000), Operations |-> None, AllocatedB |-> None]}}

\* the reports the selection loop is run on
SelectionDocs ==
    { InvalidDoc,
      ListDoc(<<FixedEntry(2000)>>),
      ListDoc(<<AdaptiveEntry(9000)>>),
      PairDoc(1000, 1100) }

ParserDocs ==
    {ListDoc(bs) : bs \in SeqsUpTo(Entries, MaxEntries)}
        \cup {ArrayDoc, NullBenchmarksDoc, NoBenchmarksDoc}

\* the measurements and settings the comparison is run on
Vals == {0, 100, 200, 500, 1000, 1100, 1300, 4000, 5000}

ThreshEnv == { Unset, EnvStr(<<"0">>), EnvStr(<<"-","5","0">>),
               EnvStr(<<"i","n","f">>), EnvStr(<<>>) }

MinBytesEnv == { Unset, EnvStr(<<"0">>), EnvStr(<<"1","0","0","0">>),
                 EnvStr(<<"4","k">>) }

File(mtime, doc) == [mtime |-> mtime, doc |-> doc]

\* a report left by an earlier run
StaleFile == [exists |-> TRUE,
              md |-> Render(0, Whole(1), Whole(1), Whole(0), Whole(20), Whole(4096), TRUE, "PASS")]

(* ------------------------------- state --------------------------------- *)

VARIABLES
    exists,         \* whether benchmarks/BenchmarkDotNet.Artifacts exists
    files,          \* the matching report files under it, in the order rglob finds them
    environ,        \* ADAPTIVE_ALLOC_MAX_PCT and ADAPTIVE_ALLOC_MIN_BYTES
    out,            \* the file ADAPTIVE-ALLOC-DELTA.md
    pc,             \* where main is
    reports,        \* the sorted list of candidates (indices into files)
    idx,            \* the position of the for loop in reports
    tried,          \* the candidates load_allocations was called on, in order
    fixed_alloc, adaptive_alloc, report_path,
    thresh, min_bytes, delta_pct, under_min, status,
    writes,         \* the texts written to ADAPTIVE-ALLOC-DELTA.md, in order
    stdout,         \* what was printed, by kind of line
    raised,         \* the exception that ended the run, "" if none
    exit            \* the process exit status, -1 while running

inputs == <<exists, files, environ>>

locals == <<reports, idx, tried, fixed_alloc, adaptive_alloc, report_path>>

verdict == <<thresh, min_bytes, delta_pct, under_min, status>>

vars == <<exists, files, environ, out, pc, reports, idx, tried, fixed_alloc,
          adaptive_alloc, report_path, thresh, min_bytes, delta_pct, under_min,
          status, writes, stdout, raised, exit>>

DefaultEnv == [thresh |-> Unset, min_bytes |-> Unset]

\* The program only compares modification times: k files are given times
\* that fill 1..j for some j <= k, which covers every order with ties.
DenseTimes(ms) ==
    \A t \in 1..Len(ms) :
        (\E i \in 1..Len(ms) : ms[i] = t) \/ (\A i \in 1..Len(ms) : ms[i] < t)

\* runs of the candidate selection: several files, default settings
SelectionInputs ==
    /\ exists = TRUE
    /\ \E k \in 0..MaxFiles :
          \E ms \in [1..k -> 1..k], ds \in [1..k -> SelectionDocs] :
              /\ DenseTimes(ms)
              /\ files = [i \in 1..k |-> File(ms[i], ds[i])]
    /\ environ = DefaultEnv
    /\ out = NoFile

\* runs of the parser: one file, default settings
ParserInputs ==
    /\ exists = TRUE
    /\ files \in {<<File(1, d)>> : d \in ParserDocs}
    /\ environ = DefaultEnv
    /\ out = NoFile

\* runs of the comparison: one complete report, the settings varied
ComparatorInputs ==
    /\ exists = TRUE
    /\ files \in {<<File(1, PairDoc(f, a))>> : f \in Vals, a \in Vals}
    /\ environ \in [thresh : ThreshEnv, min_bytes : MinBytesEnv]
    /\ out \in {NoFile, StaleFile}

\* runs without the artifacts directory
NoRootInputs ==
    /\ exists = FALSE
    /\ files = <<>>
    /\ environ = DefaultEnv
    /\ out \in {NoFile, StaleFile}

Init ==
    /\ \/ SelectionInputs
       \/ ParserInputs
       \/ ComparatorInputs
       \/ NoRootInputs
    /\ pc = "start"
    /\ reports = <<>>
    /\ idx = 0
    /\ tried = <<>>
    /\ fixed_alloc = None
    /\ adaptive_alloc = None
    /\ report_path = 0
    /\ thresh = None
    /\ min_bytes = None
    /\ delta_pct = None
    /\ under_min = FALSE
    /\ status = ""
    /\ writes = <<>>
    /\ stdout = <<>>
    /\ raised = ""
    /\ exit = -1

(* ------------------------------ actions -------------------------------- *)

\* lines 58-61
RootMissing ==
    /\ pc = "start"
    /\ ~exists
    /\ stdout' = Append(stdout, "::warning::root")
    /\ exit' = 0
    /\ pc' = "done"
    /\ UNCHANGED <<inputs, out, locals, verdict, writes, raised>>

\* lines 62-65
NoReports ==
    /\ pc = "start"
    /\ exists
    /\ files = <<>>
    /\ stdout' = Append(stdout, "::warning::noreports")
    /\ exit' = 0
    /\ pc' = "done"
    /\ UNCHANGED <<inputs, out, locals, verdict, writes, raised>>

\* lines 62-68
ListReports ==
    /\ pc = "start"
    /\ exists
    /\ files # <<>>
    /\ reports' = SortReports([i \in 1..Len(files) |-> i], files)
    /\ fixed_alloc' = None
    /\ adaptive_alloc' = None
    /\ idx' = 1
    /\ pc' = "loop"
    /\ UNCHANGED <<inputs, out, tried, report_path, verdict, writes, stdout, raised, exit>>

\* lines 69-74, merging what successive files yield
TryReport_Merge ==
    /\ pc = "loop"
    /\ idx <= Len(reports)
    /\ LET rpt == reports[idx]
           r == load_allocations(files[rpt].doc)
           f == IF IsNone(r.f) THEN fixed_alloc ELSE r.f
           a == IF IsNone(r.a) THEN adaptive_alloc ELSE r.a
       IN  /\ tried' = Append(tried, rpt)
           /\ r.exc = ""
           /\ fixed_alloc' = f
           /\ adaptive_alloc' = a
           /\ IF ~IsNone(f) /\ ~IsNone(a)
              THEN report_path' = rpt /\ pc' = "after" /\ idx' = idx
              ELSE report_path' = report_path /\ pc' = pc /\ idx' = idx + 1
           /\ UNCHANGED <<raised, exit>>
    /\ UNCHANGED <<inputs, out, reports, verdict, writes, stdout>>

\* lines 69-74: one iteration of the loop over the candidates
TryReport ==
    /\ pc = "loop"
    /\ idx <= Len(reports)
    /\ LET rpt == reports[idx]
           r == load_allocations(files[rpt].doc)
       IN  /\ tried' = Append(tried, rpt)
           /\ \/ /\ r.exc # ""          \* nothing catches it: the process ends
                 /\ raised' = r.exc
                 /\ exit' = 1
                 /\ pc' = "crashed"
                 /\ UNCHANGED <<idx, fixed_alloc, adaptive_alloc, report_path>>
              \/ /\ r.exc = ""
                 /\ ~IsNone(r.f) /\ ~IsNone(r.a)
                 /\ fixed_alloc' = r.f
                 /\ adaptive_alloc' = r.a
                 /\ report_path' = rpt
                 /\ pc' = "after"
                 /\ UNCHANGED <<idx, raised, exit>>
              \/ /\ r.exc = ""
                 /\ IsNone(r.f) \/ IsNone(r.a)
                 /\ idx' = idx + 1
                 /\ UNCHANGED <<pc, fixed_alloc, adaptive_alloc, report_path, raised, exit>>
    /\ UNCHANGED <<inputs, out, reports, verdict, writes, stdout>>

\* line 69: the candidates are exhausted
LoopEnds ==
    /\ pc = "loop"
    /\ idx > Len(reports)
    /\ pc' = "after"
    /\ UNCHANGED <<inputs, out, locals, verdict, writes, stdout, raised, exit>>

\* lines 75-77
NoMetrics ==
    /\ pc = "after"
    /\ IsNone(fixed_alloc) \/ IsNone(adaptive_alloc)
    /\ stdout' = Append(stdout, "::warning::nometrics")
    /\ exit' = 0
    /\ pc' = "done"
    /\ UNCHANGED <<inputs, out, locals, verdict, writes, raised>>

\* os.environ.get(name, default) handed to float()
EnvFloat(e, default) ==
    IF e.set THEN ParseFloat(e.val) ELSE [ok |-> TRUE, val |-> Whole(default)]

\* lines 78-79: a setting that is no number ends the run
BadSetting ==
    /\ pc = "after"
    /\ ~IsNone(fixed_alloc) /\ ~IsNone(adaptive_alloc)
    /\ \/ ~EnvFloat(environ.thresh, DEFAULT_THRESH).ok
       \/ ~EnvFloat(environ.min_bytes, DEFAULT_MIN_BYTES).ok
    /\ raised' = "ValueError"
    /\ exit' = 1
    /\ pc' = "crashed"
    /\ UNCHANGED <<inputs, out, locals, verdict, writes, stdout>>

\* lines 78-99
Report ==
    /\ pc = "after"
    /\ ~IsNone(fixed_alloc) /\ ~IsNone(adaptive_alloc)
    /\ EnvFloat(environ.thresh, DEFAULT_THRESH).ok
    /\ EnvFloat(environ.min_bytes, DEFAULT_MIN_BYTES).ok
    /\ LET t == EnvFloat(environ.thresh, DEFAULT_THRESH).val
           m == EnvFloat(environ.min_bytes, DEFAULT_MIN_BYTES).val
           delta == DeltaPct(adaptive_alloc, fixed_alloc)
           under == UnderMin(adaptive_alloc, fixed_alloc, m)
           st == Decide(under, delta, t)
           md == Render(report_path, fixed_alloc, adaptive_alloc, delta, t, m, under, st)
       IN  /\ thresh' = t
           /\ min_bytes' = m
           /\ delta_pct' = delta
           /\ under_min' = under
           /\ status' = st
           /\ out' = WriteText(out, md)
           /\ writes' = Append(writes, md)
           /\ stdout' = IF st = "FAIL" THEN stdout \o <<"report", "::error::">>
                        ELSE Append(stdout, "report")
           /\ exit' = ExitCode(st)
    /\ pc' = "done"
    /\ UNCHANGED <<inputs, locals, raised>>

Next ==
    \/ RootMissing
    \/ NoReports
    \/ ListReports
    \/ TryReport
    \/ LoopEnds
    \/ NoMetrics
    \/ BadSetting
    \/ Report

Spec == Init /\ [][Next]_vars

(* ----------------------------- properties ------------------------------- *)

DocOf(p) == files[p].doc

Benches(p) == DocOf(p).Benchmarks

TriedSet == {tried[i] : i \in 1..Len(tried)}

\* the file yields both measurements
Complete(p) ==
    LET r == load_allocations(DocOf(p))
    IN  r.exc = "" /\ ~IsNone(r.f) /\ ~IsNone(r.a)

\* x and y are the same number, or both None
SameNumber(x, y) ==
    /\ x.k = y.k
    /\ x.k = "num" => x.n * y.d = y.n * x.d

\* delta_pct <= t for delta_pct = (a - f) / f * 100, +infinity for f = 0,
\* on numerators and denominators; a, f finite, t finite or +infinity
DeltaWithin(a, f, t) ==
    IF f.n = 0 THEN t.k = "inf"
    ELSE IF t.k = "inf" THEN TRUE
    ELSE IF f.n > 0
         THEN (a.n * f.d - f.n * a.d) * 100 * t.d <= t.n * f.n * a.d
         ELSE (a.n * f.d - f.n * a.d) * 100 * t.d >= t.n * f.n * a.d

Below(x, m) == x.n * m.d < m.n * x.d

\* C1: whenever a verdict is computed, its status is PASS exactly when both
\* measurements are below min_bytes or delta_pct <= threshold, and FAIL
\* otherwise, with delta_pct = (adaptive - fixed) / fixed * 100 and +infinity
\* for fixed = 0; under_min holds exactly when both are below min_bytes.
C1_StatusRule ==
    status # "" =>
        LET under == Below(adaptive_alloc, min_bytes) /\ Below(fixed_alloc, min_bytes)
        IN  /\ status \in {"PASS", "FAIL"}
            /\ under_min = under
            /\ (delta_pct = Inf) = (fixed_alloc.n = 0)
            /\ (status = "PASS") = (under \/ DeltaWithin(adaptive_alloc, fixed_alloc, thresh))

\* fixed = 0, adaptive = 500, min_bytes = 4096: PASS on an infinite delta
C1_Witness ==
    /\ status = "PASS"
    /\ fixed_alloc = Whole(0)
    /\ adaptive_alloc = Whole(500)
    /\ min_bytes = Whole(4096)
    /\ delta_pct = Inf

\* the first candidate, in the order tried, that would yield both
\* measurements if a candidate that cannot be read were passed over
FirstComplete ==
    CHOOSE k \in 1..Len(reports) :
        Complete(reports[k]) /\ \A j \in 1..(k - 1) : ~Complete(reports[j])

\* C2: a candidate that cannot be parsed ends the evaluation of that file only:
\* a run over some candidates ends with a verdict from the first candidate
\* that yields both measurements, or, when none does, as a skip with status 0.
C2_MalformedSkipped ==
    (pc \in {"done", "crashed"} /\ reports # <<>> /\ raised # "ValueError") =>
        IF \E k \in 1..Len(reports) : Complete(reports[k])
        THEN status # "" /\ report_path = reports[FirstComplete]
        ELSE pc = "done" /\ exit = 0 /\ status = ""

\* C3: the file the verdict is computed from is the first, by modification
\* time from the most recent, that yields both measurements: every more recent
\* candidate was tried and did not, and no older candidate was tried; the
\* candidates were tried in non-increasing order of modification time.
C3_SelectionOrder ==
    report_path # 0 =>
        /\ Complete(report_path)
        /\ tried[Len(tried)] = report_path
        /\ \A i, j \in 1..Len(tried) :
               i < j => /\ files[tried[i]].mtime >= files[tried[j]].mtime
                        /\ tried[i] # tried[j]
        /\ \A p \in 1..Len(files) :
               /\ files[p].mtime > files[report_path].mtime =>
                      p \in TriedSet /\ ~Complete(p)
               /\ files[p].mtime < files[report_path].mtime => p \notin TriedSet
               /\ (p \in TriedSet /\ p # report_path) => ~Complete(p)

\* three candidates of three ages: the most recent lacks a measurement, the
\* next is selected, the oldest is not read
C3_Witness ==
    /\ status # ""
    /\ Len(files) = 3
    /\ Len(tried) = 2
    /\ \E p, q \in 1..Len(files) :
           /\ files[p].mtime > files[report_path].mtime
           /\ files[q].mtime < files[report_path].mtime
           /\ Complete(q)

\* C4: a run that returns gives exit status 1 exactly when a verdict with
\* status FAIL was produced, and 0 for PASS and on every skip path.
C4_ExitStatus ==
    pc = "done" =>
        /\ exit \in {0, 1}
        /\ (exit = 1) = (status = "FAIL")
        /\ status = "" => stdout[Len(stdout)] \in
               {"::warning::root", "::warning::noreports", "::warning::nometrics"}

C4_Witness == pc = "done" /\ status = "FAIL" /\ exit = 1 /\ raised = ""

\* C5 as stated: every run that returns has written the report file once.
C5_EveryRunWrites ==
    pc = "done" => Len(writes) = 1 /\ out.exists

\* C5 amended: a run that produces a verdict writes the report file exactly
\* once, and the file then holds that report whatever it held before; a run
\* that ends without a verdict writes nothing and leaves the file as it was.
C5_VerdictRunsWrite ==
    /\ Len(writes) <= 1
    /\ (pc = "done" /\ status # "") =>
           /\ Len(writes) = 1
           /\ out = [exists |-> TRUE, md |-> writes[1]]
           /\ out.md.report = report_path
           /\ out.md.result = status
    /\ status = "" => writes = <<>> /\ out \in {NoFile, StaleFile}

C5_Witness ==
    /\ pc = "done"
    /\ status = "FAIL"
    /\ Len(writes) = 1
    /\ out.md.result = "FAIL"
    /\ out.md.report = report_path

\* the category the parser files an entry under, "" for none
CategoryOf(b) ==
    IF Contains(FixedWord, MethodOf(b)) THEN "fixed"
    ELSE IF Contains(AdaptiveWord, MethodOf(b)) THEN "adaptive"
    ELSE ""

\* the per-operation value of an entry as the claims state it
StatedPerOp(b) ==
    LET st == b.Statistics
        ops == IF st.Operations.k = "none" \/ st.Operations.n = 0
               THEN [n |-> 1, d |-> 1] ELSE st.Operations
    IN  IF st.AllocatedBytes.k # "none"
        THEN [k |-> "num", n |-> st.AllocatedBytes.n * ops.d,
                           d |-> st.AllocatedBytes.d * ops.n]
        ELSE st.AllocatedB

\* the entries of a report the parser files under a category
Matching(bs, cat) ==
    {i \in 1..Len(bs) : CategoryOf(bs[i]) = cat /\ StatedPerOp(bs[i]).k # "none"}

\* the value of the last entry among those at the positions m, None if none
ValueOfLast(bs, m) ==
    IF m = {} THEN None
    ELSE StatedPerOp(bs[CHOOSE i \in m : \A j \in m : j <= i])

\* C6: when several entries of a report are filed under the same category, the
\* measurement of that category is the per-operation value of the last of them.
C6_LastEntryWins ==
    /\ \A p \in TriedSet :
           (DocOf(p).kind = "object" /\ DocOf(p).bkind = "list") =>
               LET r == load_allocations(DocOf(p))
                   bs == Benches(p)
               IN  /\ SameNumber(r.f, ValueOfLast(bs, Matching(bs, "fixed")))
                   /\ SameNumber(r.a, ValueOfLast(bs, Matching(bs, "adaptive")))
    /\ report_path # 0 =>
           LET bs == Benches(report_path)
           IN  /\ ~IsNone(fixed_alloc) /\ ~IsNone(adaptive_alloc)
               /\ SameNumber(fixed_alloc, ValueOfLast(bs, Matching(bs, "fixed")))
               /\ SameNumber(adaptive_alloc, ValueOfLast(bs, Matching(bs, "adaptive")))

\* a verdict from a report with two adaptive entries of different values
C6_Witness ==
    /\ status # ""
    /\ LET bs == Benches(report_path)
       IN  \E i, j \in Matching(bs, "adaptive") :
               /\ i < j
               /\ ~SameNumber(StatedPerOp(bs[i]), StatedPerOp(bs[j]))
               /\ SameNumber(adaptive_alloc, StatedPerOp(bs[j]))

\* C7: for fixed >= 0 and the settings held constant, a PASS for an adaptive
\* value is a PASS for every smaller adaptive value >= 0.
C7_Monotone ==
    (status = "PASS" /\ Leq(Whole(0), fixed_alloc)) =>
        \A v \in Vals :
            Leq(Whole(v), adaptive_alloc) =>
                Decide(UnderMin(Whole(v), fixed_alloc, min_bytes),
                       DeltaPct(Whole(v), fixed_alloc), thresh) = "PASS"

\* a PASS decided by the delta, above a smaller adaptive value of the model
C7_Witness ==
    /\ status = "PASS"
    /\ ~under_min
    /\ fixed_alloc.n > 0
    /\ \E v \in Vals : Lt(Whole(v), adaptive_alloc) /\ Lt(fixed_alloc, Whole(v))

\* C8: the two values of a verdict are those one file yields: the selected
\* file yields both, and what other files yielded is not kept.
C8_SameFile ==
    /\ status # "" => report_path # 0
    /\ report_path # 0 =>
           LET r == load_allocations(DocOf(report_path))
           IN  /\ r.exc = ""
               /\ ~IsNone(r.f) /\ ~IsNone(r.a)
               /\ fixed_alloc = r.f
               /\ adaptive_alloc = r.a
    /\ report_path = 0 => IsNone(fixed_alloc) /\ IsNone(adaptive_alloc)

\* a verdict reached after a file that yielded one measurement only
C8_Witness ==
    /\ status # ""
    /\ \E i \in 1..(Len(tried) - 1) :
           LET r == load_allocations(DocOf(tried[i]))
           IN  r.exc = "" /\ (IsNone(r.f) # IsNone(r.a))

\* C9: a FAIL implies delta_pct > threshold and adaptive >= min_bytes.
C9_FailOnlyAboveMin ==
    status = "FAIL" => Lt(thresh, delta_pct) /\ ~Lt(adaptive_alloc, min_bytes)

\* C10: the per-operation value of an entry is AllocatedBytes / Operations when
\* AllocatedBytes is present (Operations taken as 1 when absent or 0), otherwise
\* AllocatedB; an entry with neither leaves both measurements as they were.
C10_PerOperation ==
    /\ \A p \in TriedSet :
           (DocOf(p).kind = "object" /\ DocOf(p).bkind = "list") =>
               \A i \in 1..Len(Benches(p)) :
                   /\ SameNumber(PerOp(Benches(p)[i].Statistics), StatedPerOp(Benches(p)[i]))
                   /\ StatedPerOp(Benches(p)[i]).k = "none" =>
                          LoopOver(Benches(p), i) = LoopOver(Benches(p), i - 1)
    /\ report_path # 0 =>
           /\ \E i \in 1..Len(Benches(report_path)) :
                  SameNumber(fixed_alloc, StatedPerOp(Benches(report_path)[i]))
           /\ \E i \in 1..Len(Benches(report_path)) :
                  SameNumber(adaptive_alloc, StatedPerOp(Benches(report_path)[i]))

\* a verdict from a report whose fixed entry has Operations = 0 and whose last
\* entry carries a category label but neither source of a value
C10_Witness ==
    /\ status # ""
    /\ LET bs == Benches(report_path)
       IN  /\ Len(bs) = 3
           /\ CategoryOf(bs[1]) = "fixed"
           /\ bs[1].Statistics.AllocatedBytes = Whole(3000)
           /\ bs[1].Statistics.Operations = Whole(0)
           /\ fixed_alloc = Whole(3000)
           /\ CategoryOf(bs[3]) # ""
           /\ bs[3].Statistics = NoStats

====
